---- MODULE Spec2Model ----
(***************************************************************************)
(* Finite-element evaluation engine of pysofe: Mesh.boundary, the P1       *)
(* Lagrange element and FESpace (quadrature data, global derivatives, DOF  *)
(* evaluation).                                                            *)
(*                                                                         *)
(* Real numbers are fixed-point integers: the real 1.0 is Unit.  Node      *)
(* coordinates, centroids, local points and basis values are fixed-point;  *)
(* DOF values, Jacobian entries and basis derivatives are plain integers.  *)
(* numpy arrays are sequences (of sequences ...), indexed from 1; the      *)
(* 0-based indexing of the source is kept visible in Take0.                *)
(***************************************************************************)
EXTENDS Integers, Sequences, FiniteSets, TLC

VARIABLES mesh, npts, pc, call, ret, seen

vars == <<mesh, npts, pc, call, ret, seen>>

\* ------------------------------------------------------------------ bounds

\* largest number of points in a caller's batch and in a quadrature rule
MaxPts == 2
\* raw Jacobian determinants range over -MaxDet .. MaxDet, without 0
MaxDet == 1
\* inverse-Jacobian entries range over -MaxJac .. MaxJac
MaxJac == 1
\* DOF coefficients range over -MaxDof .. MaxDof
MaxDof == 1

\* the fixed-point 1.0; divisible by 2 and by 3 so that the centroids of
\* edges and of triangles are exact
Unit == 2 * 3
Half == Unit \div 2

\* ----------------------------------------------------------- array helpers

RECURSIVE SumTo(_, _)
\* f[1] + ... + f[n]
SumTo(f, n) == IF n = 0 THEN 0 ELSE SumTo(f, n - 1) + f[n]

Abs(x) == IF x < 0 THEN -x ELSE x

\* numpy take with a 0-based index
Take0(a, i) == a[i + 1]

\* a.compress(mask, axis=0): the rows of a where mask is true, in order
RECURSIVE Compress(_, _)
Compress(a, mask) ==
    IF Len(a) = 0 THEN << >>
    ELSE LET n == Len(a)
             front == Compress(SubSeq(a, 1, n - 1), SubSeq(mask, 1, n - 1))
         IN  IF mask[n] THEN Append(front, a[n]) ELSE front

\* number of true entries among mask[1..i]
RECURSIVE CountTrue(_, _)
CountTrue(mask, i) ==
    IF i = 0 THEN 0 ELSE CountTrue(mask, i - 1) + (IF mask[i] THEN 1 ELSE 0)

\* ---------------------------------------------------------------- topology

\* the members of a set of vertex indices in ascending order
SortedTuple(T) ==
    CHOOSE s \in [1..Cardinality(T) -> T] :
        \A i, j \in 1..Cardinality(T) : i < j => s[i] < s[j]

RECURSIVE LexLess(_, _)
LexLess(s, t) ==
    IF Len(s) = 0 \/ Len(t) = 0 THEN Len(s) < Len(t)
    ELSE IF s[1] # t[1] THEN s[1] < t[1]
    ELSE LexLess(Tail(s), Tail(t))

RECURSIVE LexSorted(_)
\* the tuples of S in lexicographic order
LexSorted(S) ==
    IF S = {} THEN << >>
    ELSE LET lo == CHOOSE s \in S : \A t \in S \ {s} : LexLess(s, t)
         IN  <<lo>> \o LexSorted(S \ {lo})

Range(s) == {s[i] : i \in 1..Len(s)}

\* MeshTopology.get_entities(d): vertex indices (1-based) of the d-entities
get_entities(m, d) ==
    IF d = m.dimension THEN m.cells
    ELSE IF d = 0 THEN [v \in 1..Len(m.nodes) |-> <<v>>]
    ELSE LexSorted({SortedTuple(T) :
                    T \in UNION {{S \in SUBSET Range(m.cells[c]) : Cardinality(S) = d + 1}
                                 : c \in 1..Len(m.cells)}})

\* MeshTopology.n_entities[d]
n_entities(m, d) == Len(get_entities(m, d))

\* number of cells a facet is incident to
IncidentCells(m, facet) ==
    Cardinality({c \in 1..Len(m.cells) : Range(facet) \subseteq Range(m.cells[c])})

\* the boundary membership the topology derives at construction: a facet is
\* on the boundary iff it is incident to exactly one cell
BoundaryMembership(nodes, cells, D) ==
    LET m == [dimension |-> D, nodes |-> nodes, cells |-> cells]
        facets == get_entities(m, D - 1)
    IN  [i \in 1..Len(facets) |-> IncidentCells(m, facets[i]) = 1]

\* MeshTopology.get_boundary(d = D-1): a fresh copy of the boundary mask
get_boundary(m) == m.boundary

\* Mesh.__init__
MakeMesh(nodes, connectivity) ==
    LET D == Len(nodes[1])
    IN  [dimension |-> D, nodes |-> nodes, cells |-> connectivity,
         boundary |-> BoundaryMembership(nodes, connectivity, D)]

\* Mesh.facets
facets(m) == get_entities(m, m.dimension - 1)

\* ------------------------------------------------------------------ meshes

\* test_poisson.py, 1D case: nodes [0.],[1.], one cell [1, 2]
Line1 == MakeMesh(<< <<0>>, <<Unit>> >>, << <<1, 2>> >>)
\* the same interval split at its midpoint
Line2 == MakeMesh(<< <<0>>, <<Unit>>, <<Half>> >>, << <<1, 3>>, <<3, 2>> >>)
\* test_poisson.py, 2D case: the unit square cut into two triangles
Square == MakeMesh(<< <<0, 0>>, <<Unit, 0>>, <<0, Unit>>, <<Unit, Unit>> >>,
                   << <<1, 2, 3>>, <<2, 3, 4>> >>)
\* a single triangle
Tri == MakeMesh(<< <<0, 0>>, <<Unit, 0>>, <<0, Unit>> >>, << <<1, 2, 3>> >>)
\* a single tetrahedron
Tet == MakeMesh(<< <<0, 0, 0>>, <<Unit, 0, 0>>, <<0, Unit, 0>>, <<0, 0, Unit>> >>,
                << <<1, 2, 3, 4>> >>)

Meshes == {Line1, Line2, Square, Tri, Tet}

\* -------------------------------------------------------- boundary predicates

\* The caller's predicate fnc.  id names the pointwise function; vectorized
\* tells whether fnc accepts all centroids at once (a predicate written with
\* Python's "or" raises on arrays).
PredIds == {"dir_x", "dir_xy", "left", "none"}

\* highest coordinate the predicate reads
PredArity(id) == IF id = "dir_xy" THEN 2 ELSE 1

\* the predicate on one point x (a tuple of coordinates)
PredAt(id, x) ==
    CASE id = "dir_x"  -> (x[1] = 0 \/ x[1] = Unit)
      [] id = "dir_xy" -> ((x[1] = 0 \/ x[1] = Unit) \/ (x[2] = 0 \/ x[2] = Unit))
      [] id = "left"   -> x[1] < Half
      [] id = "none"   -> x[1] < 0

None == [id |-> "None", vectorized |-> TRUE]
Predicates == [id : PredIds, vectorized : BOOLEAN]

\* fnc(x) for x = centroids.T, an array of D rows and nb columns
CallBatched(fnc, x, nb) ==
    IF ~fnc.vectorized \/ PredArity(fnc.id) > Len(x)
    THEN [raised |-> TRUE, value |-> << >>]
    ELSE [raised |-> FALSE,
          value |-> [k \in 1..nb |-> PredAt(fnc.id, [i \in 1..Len(x) |-> x[i][k]])]]

\* fnc(centroids[i,:])
CallPointwise(fnc, c) ==
    IF PredArity(fnc.id) > Len(c)
    THEN [raised |-> TRUE, value |-> FALSE]
    ELSE [raised |-> FALSE, value |-> PredAt(fnc.id, c)]

\* -------------------------------------------------------------- Mesh.boundary

\* facet_vertex_coordinates.mean(axis=1): one centroid per row of facet_vertices
Centroids(nodes, facet_vertices) ==
    [f \in 1..Len(facet_vertices) |->
        LET fv == facet_vertices[f]
            coords == [v \in 1..Len(fv) |-> Take0(nodes, fv[v] - 1)]
        IN  [i \in 1..Len(nodes[1]) |->
                SumTo([v \in 1..Len(fv) |-> coords[v][i]], Len(fv)) \div Len(fv)]]

\* centroids.T
Transpose(a, ncols) ==
    [i \in 1..ncols |-> [k \in 1..Len(a) |-> a[k][i]]]

\* the masked write with the predicate's results taken from the far end
MaskedAndReversed(boundary_mask, part_mask) ==
    [i \in 1..Len(boundary_mask) |->
        IF boundary_mask[i]
        THEN boundary_mask[i]
             /\ part_mask[Len(part_mask) + 1 - CountTrue(boundary_mask, i)]
        ELSE boundary_mask[i]]

\* boundary_mask[boundary_mask] = logical_and(boundary_mask[boundary_mask], part_mask)
MaskedAnd(boundary_mask, part_mask) ==
    [i \in 1..Len(boundary_mask) |->
        IF boundary_mask[i]
        THEN boundary_mask[i] /\ part_mask[CountTrue(boundary_mask, i)]
        ELSE boundary_mask[i]]

\* an except branch that gives up instead of looping
PartMaskLoopReraise(fnc, centroids) ==
    [raised |-> TRUE, value |-> << >>, calls |-> 0]

\* the except branch: the loop over the centroids, which stops at the first
\* call of fnc that raises
PartMaskLoop(fnc, centroids) ==
    LET n == Len(centroids)
        each == [i \in 1..n |-> CallPointwise(fnc, centroids[i])]
        bad == {i \in 1..n : each[i].raised}
    IN  IF bad # {}
        THEN [raised |-> TRUE, value |-> << >>,
              calls |-> CHOOSE i \in bad : \A j \in bad : i <= j]
        ELSE [raised |-> FALSE, value |-> [i \in 1..n |-> each[i].value], calls |-> n]

\* Mesh.boundary(fnc): the returned mask, or the error of a predicate that
\* raises in the loop; batched and looped count the calls of fnc
boundary(m, fnc) ==
    LET boundary_mask == get_boundary(m)
    IN  IF fnc = None
        THEN [err |-> "ok", mask |-> boundary_mask, batched |-> 0, looped |-> 0]
        ELSE
        LET facet_vertices == Compress(facets(m), boundary_mask)
            centroids == Centroids(m.nodes, facet_vertices)
            try == CallBatched(fnc, Transpose(centroids, m.dimension), Len(centroids))
            loop == PartMaskLoop(fnc, centroids)
        IN  IF ~try.raised
            THEN [err |-> "ok", mask |-> MaskedAnd(boundary_mask, try.value),
                  batched |-> 1, looped |-> 0]
            ELSE IF loop.raised
            THEN [err |-> "PredicateError", mask |-> << >>,
                  batched |-> 1, looped |-> loop.calls]
            ELSE [err |-> "ok", mask |-> MaskedAnd(boundary_mask, loop.value),
                  batched |-> 1, looped |-> loop.calls]

\* the masked write landing in the topology's own boundary mask
MeshAfterBoundaryAliased(m, result) ==
    IF result.err = "ok" THEN [m EXCEPT !.boundary = result.mask] ELSE m

\* the mesh after boundary(fnc): the masked write goes to the array that
\* get_boundary returned, no attribute of the mesh is assigned
MeshAfterBoundary(m, result) == m

\* ------------------------------------------------------------ local points

\* An array of local points of shape (nD, nP): a[i][p] is coordinate i of
\* point p.  An array with no row keeps its number of columns.
RECURSIVE Pow(_, _)
Pow(b, n) == IF n = 0 THEN 1 ELSE b * Pow(b, n - 1)

\* point number s of the grid {0, 0.5, 1}^nD
GridPoint(nD, s) == [i \in 1..nD |-> ((s \div Pow(3, i - 1)) % 3) * Half]

\* the batch of n consecutive grid points starting at point s
Batch(nD, n, s) ==
    [nD |-> nD, nP |-> n,
     a |-> [i \in 1..nD |-> [p \in 1..n |-> GridPoint(nD, (s + p - 1) % Pow(3, nD))[i]]]]

\* the batches a caller passes: up to MaxPts points of dimension nD
Batches(nD) == {Batch(nD, n, s) : n \in 1..MaxPts, s \in 0..(Pow(3, nD) - 1)}

\* points.size
Size(points) == points.nD * points.nP

\* ------------------------------------------------------------ P1 element

\* P1.__init__: n_basis = (1, 2, 3, 4)[:(dimension+1)]
n_basis(dimension) == SubSeq(<<1, 2, 3, 4>>, 1, dimension + 1)

\* basis[0] with the sign of the coordinate sum slipped
eval_d0basis_plus(dimension, points) ==
    LET nD == points.nD
        nP == points.nP
        nB == Take0(n_basis(dimension), nD)
    IN  [b \in 1..nB |-> [p \in 1..nP |->
            IF b = 1
            THEN Unit + SumTo([i \in 1..nD |-> points.a[i][p]], nD)
            ELSE points.a[b - 1][p]]]

\* P1._eval_d0basis: basis[0] = 1 - sum of the coordinates, basis[i+1] = points[i]
eval_d0basis(dimension, points) ==
    LET nD == points.nD
        nP == points.nP
        nB == Take0(n_basis(dimension), nD)
    IN  [b \in 1..nB |-> [p \in 1..nP |->
            IF b = 1
            THEN Unit - SumTo([i \in 1..nD |-> points.a[i][p]], nD)
            ELSE points.a[b - 1][p]]]

\* basis[0] = -1 written to the first axis only
eval_d1basis_firstaxis(dimension, points) ==
    LET nD == points.nD
        nP == points.nP
        nB == Take0(n_basis(dimension), nD)
    IN  [b \in 1..nB |-> [p \in 1..nP |-> [k \in 1..nD |->
            IF b = 1 THEN (IF k = 1 THEN -1 ELSE 0)
            ELSE IF k = b - 1 THEN 1 ELSE 0]]]

\* P1._eval_d1basis: basis[0] = -1 everywhere, basis[i+1,:,i] = 1
eval_d1basis(dimension, points) ==
    LET nD == points.nD
        nP == points.nP
        nB == Take0(n_basis(dimension), nD)
    IN  [b \in 1..nB |-> [p \in 1..nP |-> [k \in 1..nD |->
            IF b = 1 THEN -1
            ELSE IF k = b - 1 THEN 1 ELSE 0]]]

\* P1._eval_d2basis: zeros
eval_d2basis(dimension, points) ==
    LET nD == points.nD
        nP == points.nP
        nB == Take0(n_basis(dimension), nD)
    IN  [b \in 1..nB |-> [p \in 1..nP |-> [k \in 1..nD |-> [l \in 1..nD |-> 0]]]]

\* Element.eval_basis(points, deriv): dispatch on the derivation order
eval_basis(dimension, points, deriv) ==
    CASE deriv = 0 -> eval_d0basis(dimension, points)
      [] deriv = 1 -> eval_d1basis(dimension, points)
      [] deriv = 2 -> eval_d2basis(dimension, points)

\* ------------------------------------------------------------ reference map

\* The reference map is affine per cell, so its Jacobian is the same at every
\* point of an entity.  What it returns for an entity is an input of the
\* model: raw[e] is the signed determinant of entity e, J[e][k][j] the
\* inverse Jacobian of cell e.
\* a valid cell has a determinant that is not zero
DetVals == ((-MaxDet)..MaxDet) \ {0}

RawDets(m, d) == [1..n_entities(m, d) -> DetVals]

\* D x D matrices: a scaling a, possibly a reflection, on the diagonal, a
\* shear b above it, 0 below it
InvJacMatrices(D) ==
    {[k \in 1..D |-> [j \in 1..D |-> IF k = j THEN a ELSE IF k < j THEN b ELSE 0]]
        : a \in {-MaxJac, MaxJac}, b \in 0..MaxJac}

IdentityMatrix(D) == [k \in 1..D |-> [j \in 1..D |-> IF k = j THEN 1 ELSE 0]]

InvJacs(m) == [1..Len(m.cells) -> InvJacMatrices(m.dimension)]

\* ReferenceMap.jacobian_determinant(points): nE x nP
jacobian_determinant(raw, points) ==
    [e \in 1..Len(raw) |-> [p \in 1..points.nP |-> raw[e]]]

\* ReferenceMap.jacobian_inverse(points): nE x nP x nD x nD
jacobian_inverse(J, points) ==
    [e \in 1..Len(J) |-> [p \in 1..points.nP |-> J[e]]]

\* ------------------------------------------------------------ quadrature rule

\* GaussQuadSimp.points[d]: no point for d = 0, n points for d >= 1
QuadPoints(d, n) == IF d = 0 THEN Batch(0, 0, 0) ELSE Batch(d, n, 1)

\* GaussQuadSimp.weights[d]
QuadWeights(d, n) == [p \in 1..QuadPoints(d, n).nP |-> Unit \div n]

\* ------------------------------------------------------------------ FESpace

\* the determinants passed on with their sign
SignedDets(jac_dets) == jac_dets

\* jac_dets = np.abs(jac_dets)
AbsDets(jac_dets) ==
    [e \in 1..Len(jac_dets) |-> [p \in 1..Len(jac_dets[e]) |-> Abs(jac_dets[e][p])]]

\* np.ndarray(shape=(nE, 0))
EmptyDets(nE) == [e \in 1..nE |-> << >>]

\* jac_dets = np.ones((nE, 1))
OnesDets(nE) == [e \in 1..nE |-> <<1>>]

\* FESpace.get_quadrature_data(d); n is the size of the space's quadrature
\* rule, raw what the reference map returns
get_quadrature_data(m, n, d, raw) ==
    LET qpoints == QuadPoints(d, n)
        qweights == QuadWeights(d, n)
    IN  IF Size(qpoints) > 0
        THEN LET jac_dets == jacobian_determinant(raw, qpoints)
             IN  [err |-> "ok", qpoints |-> qpoints, qweights |-> qweights,
                  jac_dets |-> AbsDets(jac_dets),
                  trace |-> <<"jacobian_determinant">>]
        ELSE LET nE == n_entities(m, d)
             IN  [err |-> "ok", qpoints |-> qpoints, qweights |-> qweights,
                  jac_dets |-> OnesDets(nE),
                  trace |-> << >>]

\* deriv == 1: (inv_jac[:,None,:,:,:] * local_derivatives[None,:,:,:,None]).sum(axis=-2)
Pullback1(inv_jac, local_derivatives, nD) ==
    [e \in 1..Len(inv_jac) |-> [b \in 1..Len(local_derivatives) |->
        [p \in 1..Len(inv_jac[e]) |-> [j \in 1..nD |->
            SumTo([k \in 1..nD |-> inv_jac[e][p][k][j] * local_derivatives[b][p][k]], nD)]]]]

\* deriv == 2: the contraction with the transposed inverse Jacobian, then the
\* contraction with the inverse Jacobian
Pullback2(inv_jac, local_derivatives, nD) ==
    LET first == [e \in 1..Len(inv_jac) |-> [b \in 1..Len(local_derivatives) |->
                    [p \in 1..Len(inv_jac[e]) |-> [i \in 1..nD |-> [l \in 1..nD |->
                        SumTo([k \in 1..nD |->
                               inv_jac[e][p][k][i] * local_derivatives[b][p][k][l]], nD)]]]]]
    IN  [e \in 1..Len(inv_jac) |-> [b \in 1..Len(local_derivatives) |->
            [p \in 1..Len(inv_jac[e]) |-> [i \in 1..nD |-> [j \in 1..nD |->
                SumTo([l \in 1..nD |-> first[e][b][p][i][l] * inv_jac[e][p][l][j]], nD)]]]]]

\* a guard that takes first derivatives only
FirstDerivOnly(deriv) == deriv \in {1}

\* deriv in (1, 2)
GlobalDerivOrder(deriv) == deriv \in {1, 2}

\* FESpace.eval_global_derivatives(points, deriv); J is what the reference
\* map returns
eval_global_derivatives(m, points, deriv, J) ==
    IF ~GlobalDerivOrder(deriv)
    THEN [err |-> "InvalidArgument", val |-> << >>, trace |-> << >>]
    ELSE LET inv_jac == jacobian_inverse(J, points)
             local_derivatives == eval_basis(m.dimension, points, deriv)
             derivatives == IF deriv = 1
                            THEN Pullback1(inv_jac, local_derivatives, points.nD)
                            ELSE Pullback2(inv_jac, local_derivatives, points.nD)
         IN  [err |-> "ok", val |-> derivatives,
              trace |-> <<"jacobian_inverse", "eval_basis">>]

\* DOFManager.get_dof_map(d) of a P1 space: one DOF per vertex, so the DOF of
\* local basis b on entity e is vertex b of e (nB x nE, 1-based)
get_dof_map(m, d) ==
    LET ents == get_entities(m, d)
    IN  [b \in 1..(d + 1) |-> [e \in 1..Len(ents) |-> ents[e][b]]]

\* dofs.take(indices=dof_map-1, axis=0)
GatherDofs(dofs, dof_map) ==
    [b \in 1..Len(dof_map) |-> [e \in 1..Len(dof_map[b]) |-> Take0(dofs, dof_map[b][e] - 1)]]

\* a guard that lets physical points through
NotLocalIgnored(local) == FALSE

\* not local
NotLocal(local) == ~local

\* FESpace.eval_dofs(dofs, points, deriv, local)
eval_dofs(m, dofs, points, deriv, local, J) ==
    IF NotLocal(local)
    THEN [err |-> "NotSupported", val |-> << >>, trace |-> << >>]
    ELSE
    LET dim == points.nD
    IN  IF dim < m.dimension /\ deriv > 0
        THEN [err |-> "NotSupported", val |-> << >>, trace |-> << >>]
        ELSE
        LET dof_map == get_dof_map(m, dim)
            values == GatherDofs(dofs, dof_map)
            nB == Len(values)
            nE == Len(dof_map[1])
        IN  IF deriv = 0
            THEN LET basis == eval_basis(m.dimension, points, deriv)
                 IN  [err |-> "ok",
                      val |-> [e \in 1..nE |-> [p \in 1..points.nP |->
                                 SumTo([b \in 1..nB |-> values[b][e] * basis[b][p]], nB)]],
                      trace |-> <<"get_dof_map", "eval_basis">>]
            ELSE IF deriv = 1
            THEN LET dbasis_global == eval_global_derivatives(m, points, 1, J)
                 IN  [err |-> "ok",
                      val |-> [e \in 1..nE |-> [p \in 1..points.nP |-> [j \in 1..dim |->
                                 SumTo([b \in 1..nB |->
                                        values[b][e] * dbasis_global.val[e][b][p][j]], nB)]]],
                      trace |-> <<"get_dof_map">> \o dbasis_global.trace]
            \* the message is formatted with the undefined name d
            ELSE [err |-> "NameError", val |-> << >>, trace |-> <<"get_dof_map">>]

\* the DOF vectors a caller passes: the constants and one ramp
DofVectors(m) ==
    {[v \in 1..Len(m.nodes) |-> c] : c \in (-MaxDof)..MaxDof}
        \cup {[v \in 1..Len(m.nodes) |-> v]}

\* the derivation orders a caller passes
DerivOrders == {-1, 0, 1, 2, 3}

\* --------------------------------------------------------------- state machine

NoCall == [op |-> "none"]
NoRet == [err |-> "none"]
NoMask == << >>

Init ==
    /\ mesh \in Meshes
    /\ npts \in 1..MaxPts
    /\ pc = "idle"
    /\ call = NoCall
    /\ ret = NoRet
    /\ seen = [f \in Predicates \cup {None} |-> NoMask]

\* a caller invokes mesh.boundary(fnc)
Boundary ==
    /\ pc = "idle"
    /\ \E fnc \in Predicates \cup {None} :
        LET r == boundary(mesh, fnc)
        IN  /\ call' = [op |-> "boundary", fnc |-> fnc]
            /\ ret' = r
            /\ mesh' = MeshAfterBoundary(mesh, r)
            /\ seen' = IF r.err = "ok" THEN [seen EXCEPT ![fnc] = r.mask] ELSE seen
    /\ pc' = "done"
    /\ UNCHANGED npts

\* the caller takes the result (or the error) and is free to call again
Return ==
    /\ pc = "done"
    /\ pc' = "idle"
    /\ call' = NoCall
    /\ ret' = NoRet
    /\ UNCHANGED <<mesh, npts, seen>>

NextMesh == Boundary \/ Return

SpecMesh == Init /\ [][NextMesh]_vars

\* whether a result consulted the reference map
Consulted(r) ==
    \E i \in 1..Len(r.trace) : r.trace[i] \in {"jacobian_determinant", "jacobian_inverse"}

\* a caller invokes fe_space.get_quadrature_data(d); the reference map's
\* answer is drawn only when the call consults it
GetQuadratureData ==
    /\ pc = "idle"
    /\ \E d \in 0..mesh.dimension :
        LET raw0 == [e \in 1..n_entities(mesh, d) |-> 1]
            r0 == get_quadrature_data(mesh, npts, d, raw0)
        IN  \E raw \in (IF Consulted(r0) THEN RawDets(mesh, d) ELSE {<< >>}) :
                /\ call' = [op |-> "get_quadrature_data", d |-> d, refmap |-> raw]
                /\ ret' = IF Consulted(r0)
                          THEN get_quadrature_data(mesh, npts, d, raw) ELSE r0
    /\ pc' = "done"
    /\ UNCHANGED <<mesh, npts, seen>>

\* a caller invokes fe_space.eval_global_derivatives(points, deriv) with
\* points on the cells
EvalGlobalDerivatives ==
    /\ pc = "idle"
    /\ \E points \in Batches(mesh.dimension), deriv \in DerivOrders :
        LET J0 == [c \in 1..Len(mesh.cells) |-> IdentityMatrix(mesh.dimension)]
            r0 == eval_global_derivatives(mesh, points, deriv, J0)
        IN  \E J \in (IF Consulted(r0) THEN InvJacs(mesh) ELSE {<< >>}) :
                /\ call' = [op |-> "eval_global_derivatives", points |-> points,
                            deriv |-> deriv, refmap |-> J]
                /\ ret' = IF Consulted(r0)
                          THEN eval_global_derivatives(mesh, points, deriv, J) ELSE r0
    /\ pc' = "done"
    /\ UNCHANGED <<mesh, npts, seen>>

\* a caller invokes fe_space.eval_dofs(dofs, points, deriv, local)
EvalDofs ==
    /\ pc = "idle"
    /\ \E dim \in 0..mesh.dimension :
        \E points \in Batches(dim), dofs \in DofVectors(mesh),
           deriv \in DerivOrders, local \in BOOLEAN :
            LET J0 == [c \in 1..Len(mesh.cells) |-> IdentityMatrix(mesh.dimension)]
                r0 == eval_dofs(mesh, dofs, points, deriv, local, J0)
            IN  \E J \in (IF Consulted(r0) THEN InvJacs(mesh) ELSE {<< >>}) :
                    /\ call' = [op |-> "eval_dofs", dofs |-> dofs, points |-> points,
                                deriv |-> deriv, local |-> local, refmap |-> J]
                    /\ ret' = IF Consulted(r0)
                              THEN eval_dofs(mesh, dofs, points, deriv, local, J) ELSE r0
    /\ pc' = "done"
    /\ UNCHANGED <<mesh, npts, seen>>

NextSpace == GetQuadratureData \/ EvalGlobalDerivatives \/ EvalDofs \/ Return

SpecSpace == Init /\ [][NextSpace]_vars

\* ---------------------------------------------------------------- properties

BoundaryReturned == pc = "done" /\ call.op = "boundary"
QuadratureReturned == pc = "done" /\ call.op = "get_quadrature_data"
GlobalDerivativesReturned == pc = "done" /\ call.op = "eval_global_derivatives"
DofsReturned == pc = "done" /\ call.op = "eval_dofs"

\* the average of the vertex coordinates of one facet
FacetCentroid(m, facet) ==
    [i \in 1..m.dimension |->
        SumTo([v \in 1..Len(facet) |-> m.nodes[facet[v]][i]], Len(facet)) \div Len(facet)]

\* the facets incident to exactly one cell
IncidentToOneCell(m) ==
    [i \in 1..Len(facets(m)) |-> IncidentCells(m, facets(m)[i]) = 1]

\* C1: boundary(fnc) marks facet i iff facet i is marked by boundary() and fnc
\* is true on the centroid of facet i; a facet off the boundary is never
\* marked.  (fnc reads only coordinates the mesh has.)
C1_BoundaryMask ==
    (BoundaryReturned /\ call.fnc # None /\ PredArity(call.fnc.id) <= mesh.dimension)
    => /\ ret.err = "ok"
       /\ Len(ret.mask) = Len(facets(mesh))
       /\ \A i \in 1..Len(facets(mesh)) :
            /\ ret.mask[i] = (boundary(mesh, None).mask[i]
                              /\ PredAt(call.fnc.id, FacetCentroid(mesh, facets(mesh)[i])))
            /\ (~IncidentToOneCell(mesh)[i] => ~ret.mask[i])

\* the unit square with the predicate x = 0 or x = 1: two of the four boundary
\* edges are marked, the diagonal is not
C1_Witness ==
    /\ BoundaryReturned
    /\ mesh = Square
    /\ call.fnc.id = "dir_x"
    /\ ret.mask = <<FALSE, TRUE, FALSE, TRUE, FALSE>>

\* C2: fnc is called once with all centroids; when that call raises, boundary
\* calls fnc once per boundary facet and returns the mask a vectorized
\* predicate with the same pointwise values gives.  (fnc reads only
\* coordinates the mesh has.)
C2_LoopFallback ==
    (BoundaryReturned /\ call.fnc # None)
    => /\ ret.batched = 1
       /\ (~call.fnc.vectorized /\ PredArity(call.fnc.id) <= mesh.dimension)
          => /\ ret.err = "ok"
             /\ ret.looped = CountTrue(IncidentToOneCell(mesh), Len(facets(mesh)))
             /\ ret.mask = boundary(mesh, [call.fnc EXCEPT !.vectorized = TRUE]).mask
       /\ (call.fnc.vectorized /\ PredArity(call.fnc.id) <= mesh.dimension)
          => ret.looped = 0

\* a predicate that is not vectorized marks two edges of the unit square
C2_Witness ==
    /\ BoundaryReturned
    /\ mesh = Square
    /\ call.fnc = [id |-> "dir_x", vectorized |-> FALSE]
    /\ ret.looped = 4
    /\ ret.mask = <<FALSE, TRUE, FALSE, TRUE, FALSE>>

C3_AbsoluteDeterminant ==
    (QuadratureReturned /\ QuadPoints(call.d, npts).nP >= 1)
    => /\ ret.trace = <<"jacobian_determinant">>
       /\ Len(ret.jac_dets) = n_entities(mesh, call.d)
       /\ \A e \in 1..n_entities(mesh, call.d) :
            /\ Len(ret.jac_dets[e]) = ret.qpoints.nP
            /\ \A p \in 1..ret.qpoints.nP :
                /\ ret.jac_dets[e][p]
                     = Abs(jacobian_determinant(call.refmap, ret.qpoints)[e][p])
                /\ ret.jac_dets[e][p] >= 0

\* an inverted cell: the raw determinant is negative, the factor is positive
C3_Witness ==
    /\ QuadratureReturned
    /\ call.d = mesh.dimension
    /\ QuadPoints(call.d, npts).nP >= 1
    /\ \E e \in 1..Len(mesh.cells) :
        call.refmap[e] < 0 /\ ret.jac_dets[e][1] = -call.refmap[e]

\* C8: when the quadrature rule of dimension d has no point, the reference
\* map is not called and the determinant array holds exactly one entry, a
\* one, per entity of dimension d
C8_OnesWithoutPoints ==
    (QuadratureReturned /\ QuadPoints(call.d, npts).nP = 0)
    => /\ ret.trace = << >>
       /\ Len(ret.jac_dets) = n_entities(mesh, call.d)
       /\ (call.d = 0 => Len(ret.jac_dets) = Len(mesh.nodes))
       /\ \A e \in 1..Len(ret.jac_dets) : ret.jac_dets[e] = <<1>>

\* the three vertices of the split interval
C8_Witness ==
    /\ QuadratureReturned
    /\ mesh = Line2
    /\ call.d = 0
    /\ ret.qpoints.nP = 0
    /\ ret.jac_dets = << <<1>>, <<1>>, <<1>> >>

\* C4: eval_global_derivatives fails with InvalidArgument for every deriv
\* outside {1, 2}, before the reference map or the element is evaluated, and
\* never fails so for deriv in {1, 2}
C4_InvalidDeriv ==
    GlobalDerivativesReturned
    => /\ (call.deriv \notin {1, 2}
           => ret.err = "InvalidArgument" /\ ret.trace = << >> /\ ret.val = << >>)
       /\ (call.deriv \in {1, 2} => ret.err # "InvalidArgument")

\* deriv = 0 is refused
C4_Witness ==
    /\ GlobalDerivativesReturned
    /\ call.deriv = 0
    /\ ret.err = "InvalidArgument"

\* C5: eval_dofs fails with NotSupported, returning nothing and before the DOF
\* map is fetched or a basis function evaluated, whenever local is false, and
\* whenever deriv > 0 and the points have fewer rows than the mesh dimension
C5_NotSupported ==
    (DofsReturned
     /\ (~call.local \/ (call.deriv > 0 /\ call.points.nD < mesh.dimension)))
    => /\ ret.err = "NotSupported"
       /\ ret.val = << >>
       /\ ret.trace = << >>

\* a first derivative asked for on the edges of a triangle mesh
C5_Witness ==
    /\ DofsReturned
    /\ mesh = Square
    /\ call.local /\ call.deriv = 1 /\ call.points.nD = 1
    /\ ret.err = "NotSupported"

\* whether every entry of a DOF vector is c
IsConstant(dofs, c) == \A v \in 1..Len(dofs) : dofs[v] = c

\* C6: with every DOF equal to c, eval_dofs(dofs, points, 0, local=true)
\* gives c for every entity and every point, and the P1 basis values sum to 1
\* at every point
C6_ConstantReproduction ==
    (DofsReturned /\ call.local /\ call.deriv = 0)
    => /\ ret.err = "ok"
       /\ Len(ret.val) = n_entities(mesh, call.points.nD)
       /\ \A p \in 1..call.points.nP :
            LET basis == eval_basis(mesh.dimension, call.points, 0)
            IN  SumTo([b \in 1..Len(basis) |-> basis[b][p]], Len(basis)) = Unit
       /\ \A c \in (-MaxDof)..MaxDof :
            IsConstant(call.dofs, c)
            => \A e \in 1..Len(ret.val) :
                 /\ Len(ret.val[e]) = call.points.nP
                 /\ \A p \in 1..call.points.nP : ret.val[e][p] = c * Unit

\* DOFs [1, 1] on the one-cell interval give 1 at the midpoint
C6_Witness ==
    /\ DofsReturned
    /\ mesh = Line1
    /\ call.local /\ call.deriv = 0
    /\ call.dofs = <<1, 1>>
    /\ call.points = [nD |-> 1, nP |-> 1, a |-> << <<Half>> >>]
    /\ ret.val = << <<Unit>> >>

\* C7: for deriv = 1, out[e,b,p,j] is the sum over k of
\* inverse_jacobian[e,p,k,j] * local_derivative[b,p,k], and the sum of
\* out[e,b,p,j] over the basis functions b is zero
C7_GradientPullback ==
    (GlobalDerivativesReturned /\ call.deriv = 1)
    => LET D == mesh.dimension
           nP == call.points.nP
           inv == jacobian_inverse(call.refmap, call.points)
           loc == eval_basis(D, call.points, 1)
       IN  /\ ret.err = "ok"
           /\ Len(ret.val) = Len(mesh.cells)
           /\ \A e \in 1..Len(mesh.cells), p \in 1..nP, j \in 1..D :
                /\ \A b \in 1..(D + 1) :
                     ret.val[e][b][p][j]
                       = SumTo([k \in 1..D |-> inv[e][p][k][j] * loc[b][p][k]], D)
                /\ SumTo([b \in 1..(D + 1) |-> ret.val[e][b][p][j]], D + 1) = 0

\* a sheared, reflected cell of the unit square: the gradients are not zero
C7_Witness ==
    /\ GlobalDerivativesReturned
    /\ mesh = Square
    /\ call.deriv = 1
    /\ call.refmap[2] = << <<-1, 1>>, <<0, -1>> >>
    /\ ret.val[2][1][1] = <<1, 0>>
    /\ ret.val[2][2][1] = <<-1, 1>>
    /\ ret.val[2][3][1] = <<0, -1>>

\* C10: eval_dofs with local = true, points of the mesh dimension and a deriv
\* that is neither 0 nor 1 fails with NotSupported
C10_InvalidOrderNotSupported ==
    (DofsReturned /\ call.local /\ call.points.nD >= mesh.dimension
     /\ call.deriv \notin {0, 1})
    => ret.err = "NotSupported"

====
